---- MODULE Spec2Model ----
(***************************************************************************)
(* Model of the URL vulnerability scanner: the heuristic scorer            *)
(* (performComprehensiveScan), the simpler validator (validateURL) and the *)
(* React component state both are embedded in (url, isScanning,            *)
(* scanResult, scanHistory, historyFilter).                                *)
(*                                                                         *)
(* JavaScript strings are sequences of one-character strings, so that      *)
(* includes, toLowerCase, trim, startsWith, length and the URL parser are  *)
(* computed character by character.                                        *)
(***************************************************************************)
EXTENDS Integers, Sequences, FiniteSets, TLC

(***************************************************************************)
(* Strings                                                                 *)
(***************************************************************************)
UpperChars ==
    <<"A","B","C","D","E","F","G","H","I","J","K","L","M",
      "N","O","P","Q","R","S","T","U","V","W","X","Y","Z">>

LowerChars ==
    <<"a","b","c","d","e","f","g","h","i","j","k","l","m",
      "n","o","p","q","r","s","t","u","v","w","x","y","z">>

DigitChars ==
    <<"0","1","2","3","4","5","6","7","8","9">>

Range(s) == {s[i] : i \in 1..Len(s)}

AlphaSet == Range(UpperChars) \cup Range(LowerChars)

DigitSet == Range(DigitChars)

\* the characters String.prototype.trim removes and the regular expression
\* class \s matches, restricted to the ASCII ones
WhiteSpace == {" ", "\t", "\n", "\r", "\f"}

Max(a, b) == IF a >= b THEN a ELSE b

\* the lower-case letter of each upper-case one
LowerOf ==
    [c \in Range(UpperChars) |-> LowerChars[CHOOSE i \in 1..26 : UpperChars[i] = c]]

toLowerCaseChar(c) == IF c \in DOMAIN LowerOf THEN LowerOf[c] ELSE c

\* String.prototype.toLowerCase
toLowerCase(s) == [i \in 1..Len(s) |-> toLowerCaseChar(s[i])]

\* String.prototype.includes
includes(s, p) ==
    \E i \in 0..(Len(s) - Len(p)) : \A j \in 1..Len(p) : s[i + j] = p[j]

\* String.prototype.startsWith
startsWith(s, p) == Len(s) >= Len(p) /\ SubSeq(s, 1, Len(p)) = p

\* String.prototype.trim
trim(s) ==
    IF \A i \in 1..Len(s) : s[i] \in WhiteSpace
    THEN <<>>
    ELSE LET first == CHOOSE i \in 1..Len(s) :
                         s[i] \notin WhiteSpace /\ \A j \in 1..(i-1) : s[j] \in WhiteSpace
             last  == CHOOSE i \in 1..Len(s) :
                         s[i] \notin WhiteSpace /\ \A j \in (i+1)..Len(s) : s[j] \in WhiteSpace
         IN  SubSeq(s, first, last)

\* index of the first character of s that is in C, 0 when there is none
FirstIndexIn(s, C) ==
    IF \E i \in 1..Len(s) : s[i] \in C
    THEN CHOOSE i \in 1..Len(s) : s[i] \in C /\ \A j \in 1..(i-1) : s[j] \notin C
    ELSE 0

\* index of the last character of s that is in C, 0 when there is none
LastIndexIn(s, C) ==
    IF \E i \in 1..Len(s) : s[i] \in C
    THEN CHOOSE i \in 1..Len(s) : s[i] \in C /\ \A j \in (i+1)..Len(s) : s[j] \notin C
    ELSE 0

DigitValue(c) == (CHOOSE i \in 1..10 : DigitChars[i] = c) - 1

RECURSIVE parseInt(_)
\* parseInt on a string of decimal digits
parseInt(s) ==
    IF Len(s) = 0 THEN 0
    ELSE 10 * parseInt(SubSeq(s, 1, Len(s) - 1)) + DigitValue(s[Len(s)])

(***************************************************************************)
(* new URL(input): the WHATWG URL parser without a base URL, for ASCII     *)
(* input without percent-escapes, IPv6 literals or the file: scheme.       *)
(* The result is [ok |-> FALSE] where the constructor throws a TypeError.  *)
(***************************************************************************)
SpecialSchemes ==
    { <<"h","t","t","p">>, <<"h","t","t","p","s">>, <<"f","t","p">>,
      <<"w","s">>, <<"w","s","s">> }

DefaultPort(scheme) ==
    IF scheme \in {<<"h","t","t","p">>, <<"w","s">>} THEN 80
    ELSE IF scheme \in {<<"h","t","t","p","s">>, <<"w","s","s">>} THEN 443
    ELSE 21

\* code points that may not occur in a host
ForbiddenHostChars ==
    {" ", "\t", "\n", "\r", "#", "/", ":", "<", ">", "?", "@", "[", "\\", "]", "^", "|", "%"}

URLFailure == [ok |-> FALSE]

\* host[:port] of an authority, after the credentials are removed
ParseHostPort(scheme, hostport, special) ==
    LET colon   == FirstIndexIn(hostport, {":"})
        host    == IF colon = 0 THEN hostport ELSE SubSeq(hostport, 1, colon - 1)
        portStr == IF colon = 0 THEN <<>> ELSE SubSeq(hostport, colon + 1, Len(hostport))
    IN  IF special /\ Len(host) = 0 THEN URLFailure
        ELSE IF \E i \in 1..Len(host) : host[i] \in ForbiddenHostChars THEN URLFailure
        ELSE IF \E i \in 1..Len(portStr) : portStr[i] \notin DigitSet THEN URLFailure
        ELSE IF Len(portStr) > 5 \/ parseInt(portStr) > 65535 THEN URLFailure
        ELSE [ok       |-> TRUE,
              protocol |-> scheme \o <<":">>,
              hostname |-> IF special THEN toLowerCase(host) ELSE host,
              \* URL.port is "" for an absent or default port; <<n>> stands
              \* for the decimal string of n
              port     |-> IF Len(portStr) = 0 THEN <<>>
                           ELSE IF special /\ parseInt(portStr) = DefaultPort(scheme) THEN <<>>
                           ELSE <<parseInt(portStr)>>]

ParseAuthority(scheme, rest, special) ==
    LET stop      == FirstIndexIn(rest, {"/", "\\", "?", "#"})
        authority == IF stop = 0 THEN rest ELSE SubSeq(rest, 1, stop - 1)
        at        == LastIndexIn(authority, {"@"})
        hostport  == SubSeq(authority, at + 1, Len(authority))
    IN  ParseHostPort(scheme, hostport, special)

NewURL(input) ==
    LET noTabs == SelectSeq(input, LAMBDA c : c \notin {"\t", "\n", "\r"})
        s      == trim(noTabs)
        colon  == FirstIndexIn(s, {":"})
    IN  IF colon < 2 THEN URLFailure
        ELSE IF s[1] \notin AlphaSet THEN URLFailure
        ELSE IF \E i \in 2..(colon - 1) :
                    s[i] \notin (AlphaSet \cup DigitSet \cup {"+", "-", "."})
             THEN URLFailure
        ELSE LET scheme == toLowerCase(SubSeq(s, 1, colon - 1))
                 rest   == SubSeq(s, colon + 1, Len(s))
             IN  IF scheme \in SpecialSchemes
                 THEN LET skip == FirstIndexIn(rest, Range(rest) \ {"/", "\\"})
                      IN  IF skip = 0 THEN URLFailure
                          ELSE ParseAuthority(scheme, SubSeq(rest, skip, Len(rest)), TRUE)
                 ELSE IF startsWith(rest, <<"/", "/">>)
                      THEN ParseAuthority(scheme, SubSeq(rest, 3, Len(rest)), FALSE)
                      ELSE [ok |-> TRUE, protocol |-> scheme \o <<":">>,
                            hostname |-> <<>>, port |-> <<>>]

(***************************************************************************)
(* The heuristic scorer of the richer component                            *)
(***************************************************************************)
suspiciousDomains ==
    << <<"b","i","t",".","l","y">>,
       <<"t","i","n","y","u","r","l",".","c","o","m">>,
       <<"t",".","c","o">>,
       <<"g","o","o",".","g","l">>,
       <<"l","o","c","a","l","h","o","s","t">>,
       <<"1","2","7",".","0",".","0",".","1">> >>

phishingPatterns ==
    << <<"s","e","c","u","r","e","-","u","p","d","a","t","e">>,
       <<"v","e","r","i","f","y","-","a","c","c","o","u","n","t">>,
       <<"s","u","s","p","e","n","d","e","d","-","a","c","c","o","u","n","t">>,
       <<"u","r","g","e","n","t","-","a","c","t","i","o","n">> >>

maliciousExtensions ==
    << <<".","e","x","e">>, <<".","s","c","r">>, <<".","b","a","t">>,
       <<".","c","m","d">>, <<".","p","i","f">> >>

\* Array.prototype.some over a list of patterns
some(list, P(_)) == \E i \in 1..Len(list) : P(list[i])

SecurityCheck(n, s, d, i) ==
    [name |-> n, status |-> s, description |-> d, impact |-> i]

\* checks.push(c), and score -= penalty
Push(acc, c, penalty) ==
    [checks |-> Append(acc.checks, c), score |-> acc.score - penalty]

\* The steps of the try block.  ctx carries the values in scope: inputUrl,
\* domain, protocol and the draw hasSecurityHeaders.
\* HttpsCheck with a penalty of 20 instead of 30
HttpsCheck_penalty20(acc, ctx) ==
    IF ctx.protocol = <<"h","t","t","p","s",":">>
    THEN Push(acc, SecurityCheck("HTTPS Protocol", "pass",
                   "Site uses secure HTTPS connection", "high"), 0)
    ELSE Push(acc, SecurityCheck("HTTPS Protocol", "fail",
                   "Site does not use secure HTTPS connection", "high"), 20)

HttpsCheck(acc, ctx) ==
    IF ctx.protocol = <<"h","t","t","p","s",":">>
    THEN Push(acc, SecurityCheck("HTTPS Protocol", "pass",
                   "Site uses secure HTTPS connection", "high"), 0)
    ELSE Push(acc, SecurityCheck("HTTPS Protocol", "fail",
                   "Site does not use secure HTTPS connection", "high"), 30)

isDomainSuspicious(domain) ==
    some(suspiciousDomains, LAMBDA suspicious : includes(domain, suspicious))

\* DomainReputationCheck matching the whole input instead of the host
DomainReputationCheck_wholeUrl(acc, ctx) ==
    IF isDomainSuspicious(ctx.inputUrl)
    THEN Push(acc, SecurityCheck("Domain Reputation", "warning",
                   "Domain is a URL shortener or potentially suspicious", "medium"), 20)
    ELSE Push(acc, SecurityCheck("Domain Reputation", "pass",
                   "Domain appears legitimate", "medium"), 0)

DomainReputationCheck(acc, ctx) ==
    IF isDomainSuspicious(ctx.domain)
    THEN Push(acc, SecurityCheck("Domain Reputation", "warning",
                   "Domain is a URL shortener or potentially suspicious", "medium"), 20)
    ELSE Push(acc, SecurityCheck("Domain Reputation", "pass",
                   "Domain appears legitimate", "medium"), 0)

UrlLengthCheck(acc, ctx) ==
    IF Len(ctx.inputUrl) > 200
    THEN Push(acc, SecurityCheck("URL Length", "warning",
                   "Unusually long URL detected (potential obfuscation)", "low"), 10)
    ELSE Push(acc, SecurityCheck("URL Length", "pass",
                   "URL length is within normal range", "low"), 0)

\* hasPhishingPattern without the toLowerCase
hasPhishingPattern_caseSensitive(inputUrl) ==
    some(phishingPatterns, LAMBDA pattern : includes(inputUrl, pattern))

hasPhishingPattern(inputUrl) ==
    LET lower == toLowerCase(inputUrl)
    IN  some(phishingPatterns, LAMBDA pattern : includes(lower, pattern))

PhishingCheck(acc, ctx) ==
    IF hasPhishingPattern(ctx.inputUrl)
    THEN Push(acc, SecurityCheck("Phishing Indicators", "fail",
                   "Contains common phishing keywords", "high"), 25)
    ELSE Push(acc, SecurityCheck("Phishing Indicators", "pass",
                   "No common phishing patterns detected", "high"), 0)

hasMaliciousExt(inputUrl) ==
    LET lower == toLowerCase(inputUrl)
    IN  some(maliciousExtensions, LAMBDA ext : includes(lower, ext))

\* MaliciousExtCheck with a penalty of 30 instead of 35
MaliciousExtCheck_penalty30(acc, ctx) ==
    IF hasMaliciousExt(ctx.inputUrl)
    THEN Push(acc, SecurityCheck("File Type Safety", "fail",
                   "URL points to potentially dangerous file type", "high"), 30)
    ELSE Push(acc, SecurityCheck("File Type Safety", "pass",
                   "No dangerous file extensions detected", "medium"), 0)

MaliciousExtCheck(acc, ctx) ==
    IF hasMaliciousExt(ctx.inputUrl)
    THEN Push(acc, SecurityCheck("File Type Safety", "fail",
                   "URL points to potentially dangerous file type", "high"), 35)
    ELSE Push(acc, SecurityCheck("File Type Safety", "pass",
                   "No dangerous file extensions detected", "medium"), 0)

\* the SSL rule subtracting 30 again when the scheme is not https
SslCheck_resubtracts(acc, ctx) ==
    IF ctx.protocol = <<"h","t","t","p","s",":">>
    THEN Push(acc, SecurityCheck("SSL Certificate", "pass",
                   "Valid SSL certificate (simulated check)", "high"), 0)
    ELSE Push(acc, SecurityCheck("SSL Certificate", "fail",
                   "No SSL certificate available", "high"), 30)

SslCheck(acc, ctx) ==
    IF ctx.protocol = <<"h","t","t","p","s",":">>
    THEN Push(acc, SecurityCheck("SSL Certificate", "pass",
                   "Valid SSL certificate (simulated check)", "high"), 0)
    ELSE Push(acc, SecurityCheck("SSL Certificate", "fail",
                   "No SSL certificate available", "high"), 0)

SecurityHeadersCheck(acc, ctx) ==
    IF ctx.hasSecurityHeaders
    THEN Push(acc, SecurityCheck("Security Headers", "pass",
                   "Essential security headers detected", "medium"), 0)
    ELSE Push(acc, SecurityCheck("Security Headers", "warning",
                   "Missing important security headers (CSP, HSTS)", "medium"), 15)

\* the k-th step of the try block, in the order of the source
Rule(k, acc, ctx) ==
    CASE k = 1 -> HttpsCheck(acc, ctx)
      [] k = 2 -> DomainReputationCheck(acc, ctx)
      [] k = 3 -> UrlLengthCheck(acc, ctx)
      [] k = 4 -> PhishingCheck(acc, ctx)
      [] k = 5 -> MaliciousExtCheck(acc, ctx)
      [] k = 6 -> SslCheck(acc, ctx)
      [] k = 7 -> SecurityHeadersCheck(acc, ctx)

RECURSIVE ApplyRules(_, _, _)
\* the steps named by order, applied left to right
ApplyRules(order, acc, ctx) ==
    IF Len(order) = 0 THEN acc
    ELSE LET next == Rule(Head(order), acc, ctx)
         IN  ApplyRules(Tail(order), next, ctx)

SourceOrder == <<1, 2, 3, 4, 5, 6, 7>>

\* the catch block
UrlFormatFailure ==
    [checks |-> <<SecurityCheck("URL Format", "fail", "Invalid URL format", "high")>>,
     score  |-> 0]

\* the try/catch: checks and score as they stand after it
TryBlock(inputUrl, hasSecurityHeaders) ==
    LET urlObj == NewURL(inputUrl)
    IN  IF urlObj.ok
        THEN ApplyRules(SourceOrder, [checks |-> <<>>, score |-> 100],
                        [inputUrl |-> inputUrl, domain |-> urlObj.hostname,
                         protocol |-> urlObj.protocol,
                         hasSecurityHeaders |-> hasSecurityHeaders])
        ELSE UrlFormatFailure

\* OverallStatus with the suspicious band starting above 50
OverallStatus_above50(score) ==
    IF score >= 80 THEN "safe"
    ELSE IF score > 50 THEN "suspicious"
    ELSE "unsafe"

\* "Determine overall status"
OverallStatus(score) ==
    IF score >= 80 THEN "safe"
    ELSE IF score >= 50 THEN "suspicious"
    ELSE "unsafe"

\* what a call leaves its caller with: a returned value or a thrown error
Returned(v) == [threw |-> FALSE, value |-> v]

Thrown == [threw |-> TRUE]

\* performComprehensiveScan with every simulated redirect costing 5 points
performComprehensiveScan_redirectsCount(inputUrl, hasSecurityHeaders, responseTime, redirects, now) ==
    LET acc    == TryBlock(inputUrl, hasSecurityHeaders)
        score  == acc.score - 5 * redirects
        status == OverallStatus(score)
        meta   == NewURL(inputUrl)
    IN  IF ~meta.ok THEN Thrown
        ELSE Returned([url       |-> inputUrl,
                       status    |-> status,
                       score     |-> Max(0, score),
                       checks    |-> acc.checks,
                       metadata  |-> [responseTime |-> responseTime,
                                      domain       |-> meta.hostname,
                                      protocol     |-> meta.protocol,
                                      port         |-> meta.port,
                                      redirects    |-> redirects],
                       timestamp |-> now])

\* performComprehensiveScan returning the score without Math.max(0, score)
performComprehensiveScan_noClamp(inputUrl, hasSecurityHeaders, responseTime, redirects, now) ==
    LET acc    == TryBlock(inputUrl, hasSecurityHeaders)
        status == OverallStatus(acc.score)
        meta   == NewURL(inputUrl)
    IN  IF ~meta.ok THEN Thrown
        ELSE Returned([url       |-> inputUrl,
                       status    |-> status,
                       score     |-> acc.score,
                       checks    |-> acc.checks,
                       metadata  |-> [responseTime |-> responseTime,
                                      domain       |-> meta.hostname,
                                      protocol     |-> meta.protocol,
                                      port         |-> meta.port,
                                      redirects    |-> redirects],
                       timestamp |-> now])

\* hasSecurityHeaders, responseTime and redirects are the three Math.random
\* draws, now is the value of new Date()
performComprehensiveScan(inputUrl, hasSecurityHeaders, responseTime, redirects, now) ==
    LET acc    == TryBlock(inputUrl, hasSecurityHeaders)
        status == OverallStatus(acc.score)
        meta   == NewURL(inputUrl)
    IN  \* the metadata of the returned object parses inputUrl again, outside
        \* the try block
        IF ~meta.ok THEN Thrown
        ELSE Returned([url       |-> inputUrl,
                       status    |-> status,
                       score     |-> Max(0, acc.score),
                       checks    |-> acc.checks,
                       metadata  |-> [responseTime |-> responseTime,
                                      domain       |-> meta.hostname,
                                      protocol     |-> meta.protocol,
                                      port         |-> meta.port,
                                      redirects    |-> redirects],
                       timestamp |-> now])

(***************************************************************************)
(* Sample strings                                                          *)
(***************************************************************************)
\* "not a url"
urlNotAUrl ==
    <<"n","o","t"," ","a"," ","u","r","l">>

\* "https://example.com"
urlExample ==
    <<"h","t","t","p","s",":","/","/","e","x","a","m","p","l","e",".","c","o","m">>

\* "http://bit.ly/abc"
urlBitly ==
    <<"h","t","t","p",":","/","/","b","i","t",".","l","y","/","a","b","c">>

\* "https://site.com/malware"
urlSite ==
    <<"h","t","t","p","s",":","/","/","s","i","t","e",".","c","o","m","/","m","a","l","w","a","r","e">>

\* "https://site.com/malware.exe"
urlMalware ==
    <<"h","t","t","p","s",":","/","/","s","i","t","e",".","c","o","m","/","m","a","l","w","a","r","e",".","e","x","e">>

\* "https://192.168.1.1/admin"
urlPrivate ==
    <<"h","t","t","p","s",":","/","/","1","9","2",".","1","6","8",".","1",".","1","/","a","d","m","i","n">>

\* "https://example.com/"
urlExampleSlash ==
    <<"h","t","t","p","s",":","/","/","e","x","a","m","p","l","e",".","c","o","m","/">>

\* "HTTPS://Example.COM/Verify-Account.EXE"
urlUpper ==
    <<"H","T","T","P","S",":","/","/","E","x","a","m","p","l","e",".","C","O","M","/","V","e","r","i","f","y","-","A","c","c","o","u","n","t",".","E","X","E">>

\* "http://bit.ly/secure-update.exe?"
urlWorstHead ==
    <<"h","t","t","p",":","/","/","b","i","t",".","l","y","/","s","e","c","u","r","e","-","u","p","d","a","t","e",".","e","x","e","?">>

\* "mailto:someone@example.com"
urlMailto ==
    <<"m","a","i","l","t","o",":","s","o","m","e","o","n","e","@","e","x","a","m","p","l","e",".","c","o","m">>

\* "https://exa mple.com"
urlBadHost ==
    <<"h","t","t","p","s",":","/","/","e","x","a"," ","m","p","l","e",".","c","o","m">>

\* "https://example.com:8443"
urlPort ==
    <<"h","t","t","p","s",":","/","/","e","x","a","m","p","l","e",".","c","o","m",":","8","4","4","3">>

\* "https://microsoft.com"
urlMicrosoft ==
    <<"h","t","t","p","s",":","/","/","m","i","c","r","o","s","o","f","t",".","c","o","m">>

\* "https://example.com/bit.ly"
urlPathBitly ==
    <<"h","t","t","p","s",":","/","/","e","x","a","m","p","l","e",".","c","o","m","/","b","i","t",".","l","y">>

\* "http://localhost:5173"
urlLocalhost ==
    <<"h","t","t","p",":","/","/","l","o","c","a","l","h","o","s","t",":","5","1","7","3">>

\* "http://suspicious-site.com"
urlSuspiciousSite ==
    <<"h","t","t","p",":","/","/","s","u","s","p","i","c","i","o","u","s","-","s","i","t","e",".","c","o","m">>

\* n times the letter a
Pad(n) == [i \in 1..n |-> "a"]

\* a clean https URL of 198 characters: four more make it longer than 200
urlLong198 == urlExampleSlash \o Pad(178)

\* a clean https URL of 201 characters
urlLong201 == urlExampleSlash \o Pad(181)

\* every rule triggers: 221 characters
urlWorst == urlWorstHead \o Pad(189)

\* s with the string e added after its first i characters
Insert(s, i, e) == SubSeq(s, 1, i) \o e \o SubSeq(s, i + 1, Len(s))

\* urlSite with a dangerous extension added inside the scheme, before ".com"
\* and at the end; the other clean URLs with one added at the end (after the
\* port of urlPort, which then is no number)
WithExtension ==
    { <<b, Insert(b, i, maliciousExtensions[k])>> :
        b \in {urlSite}, i \in {2, 12, Len(urlSite)}, k \in 1..Len(maliciousExtensions) }
    \cup
    { <<b, b \o maliciousExtensions[k]>> :
        b \in {urlSuspiciousSite, urlLong198, urlPort}, k \in 1..Len(maliciousExtensions) }

ScorerInputs ==
    { <<>>, urlNotAUrl, urlExample, urlBitly, urlSite, urlMalware, urlPrivate,
      urlUpper, urlWorst, urlMailto, urlBadHost, urlPort, urlMicrosoft,
      urlPathBitly, urlLocalhost, urlSuspiciousSite, urlLong198, urlLong201 }
    \cup { p[2] : p \in WithExtension }

\* the pairs of inputs of two calls of the scorer: the same input twice, and a
\* clean URL with the same URL after an extension is added
InputPairs == { <<u, u>> : u \in ScorerInputs } \cup WithExtension

(***************************************************************************)
(* Math.random: the draws of one call                                      *)
(***************************************************************************)
\* Math.random() > 0.3
HeaderDraws == BOOLEAN

\* Math.floor(Math.random() * 1000) + 200 is in 200..1199: its two ends
ResponseTimes == {200, 1199}

\* Math.floor(Math.random() * 3) is in 0..2: its two ends
Redirects == {0, 2}

(***************************************************************************)
(* State                                                                   *)
(***************************************************************************)
VARIABLES
    variant,        \* which of the two components is mounted: "rich" or "simple"
    url,            \* useState('')
    isScanning,     \* useState(false)
    scanResult,     \* useState(null): <<>> is null, <<r>> the result r
    scanHistory,    \* useState([])
    historyFilter,  \* useState('')
    pending,        \* handleScan invocations suspended at their await, oldest
                    \* first: the url each one captured
    now,            \* the clock new Date() reads
    scans,          \* handleScan invocations that went past the empty-input test
    inputs,         \* the scorer called as a function: the two input strings
    outs            \* ... and what each call produced: <<>> before the call

uiVars == <<variant, url, isScanning, scanResult, scanHistory, historyFilter,
            pending, now, scans>>

scorerVars == <<inputs, outs>>

vars == <<variant, url, isScanning, scanResult, scanHistory, historyFilter,
          pending, now, scans, inputs, outs>>

\* the component as constructed
InitComponent ==
    /\ url = <<>>
    /\ isScanning = FALSE
    /\ scanResult = <<>>
    /\ scanHistory = <<>>
    /\ historyFilter = <<>>
    /\ pending = <<>>
    /\ now = 0
    /\ scans = 0

(***************************************************************************)
(* The scorer as a pure function: two calls on a pair of inputs            *)
(***************************************************************************)
InitScorer ==
    /\ variant = "rich"
    /\ InitComponent
    /\ inputs \in InputPairs
    /\ outs = << <<>>, <<>> >>

\* the k-th call: performComprehensiveScan(inputs[k]) with its draws
CallScan(k) ==
    /\ outs[k] = <<>>
    /\ \E h \in HeaderDraws, rt \in ResponseTimes, rd \in Redirects :
          outs' = [outs EXCEPT ![k] =
                      << [hasSecurityHeaders |-> h,
                          ret |-> performComprehensiveScan(inputs[k], h, rt, rd, now)] >>]
    /\ UNCHANGED <<inputs, uiVars>>

NextScorer == CallScan(1) \/ CallScan(2)

SpecScorer == InitScorer /\ [][NextScorer]_vars

(***************************************************************************)
(* The simpler component: validateURL                                      *)
(***************************************************************************)
\* /^https?:\/\/[^\s/$.?#].[^\s]*$/i.test(inputUrl)
validFormat(inputUrl) ==
    LET lower == toLowerCase(inputUrl)
        n     == IF startsWith(lower, <<"h","t","t","p","s",":","/","/">>) THEN 8
                 ELSE IF startsWith(lower, <<"h","t","t","p",":","/","/">>) THEN 7
                 ELSE 0
    IN  /\ n > 0
        /\ Len(inputUrl) >= n + 2
        /\ inputUrl[n + 1] \notin (WhiteSpace \cup {"/", "$", ".", "?", "#"})
        /\ inputUrl[n + 2] \notin {"\n", "\r"}
        /\ \A i \in (n + 3)..Len(inputUrl) : inputUrl[i] \notin WhiteSpace

\* the alternatives of the suspiciousPattern regular expression
suspiciousPatterns ==
    << <<"b","i","t",".","l","y">>,
       <<"t","i","n","y","u","r","l">>,
       <<"t",".","c","o">>,
       <<"g","o","o",".","g","l">>,
       <<"l","o","c","a","l","h","o","s","t">>,
       <<"1","2","7",".","0",".","0",".","1">>,
       <<"1","9","2",".","1","6","8">>,
       <<"1","0",".">>,
       <<"1","7","2",".">> >>

suspiciousPattern(inputUrl) ==
    LET lower == toLowerCase(inputUrl)
    IN  some(suspiciousPatterns, LAMBDA alt : includes(lower, alt))

validateURL(inputUrl, now_) ==
    LET checks == [httpsUsed         |-> startsWith(inputUrl, <<"h","t","t","p","s",":","/","/">>),
                   validFormat       |-> validFormat(inputUrl),
                   suspiciousPattern |-> suspiciousPattern(inputUrl),
                   urlLength         |-> Len(inputUrl)]
        status == IF ~checks.validFormat THEN "unsafe"
                  ELSE IF ~checks.httpsUsed \/ checks.suspiciousPattern \/ checks.urlLength > 200
                       THEN "suspicious"
                  ELSE "safe"
    IN  [url |-> inputUrl, status |-> status, checks |-> checks, timestamp |-> now_]

(***************************************************************************)
(* The component: user events and handlers                                 *)
(***************************************************************************)
\* "  "
urlBlank ==
    <<" "," ">>

\* " http://bit.ly/verify-account.exe "
urlTypedPhish ==
    <<" ","h","t","t","p",":","/","/","b","i","t",".","l","y","/","v","e","r","i","f","y","-","a","c","c","o","u","n","t",".","e","x","e"," ">>

\* what the user types into the URL field
TypedUrls == { urlBlank, urlNotAUrl, urlTypedPhish }

\* what the user types into the history filter
TypedFilters == { <<>>, <<"B","I","T">> }

simulatedUrls ==
    << <<"h","t","t","p","s",":","/","/","e","x","a","m","p","l","e",".","c","o","m","/","q","r","-","d","e","c","o","d","e","d">>,
       <<"h","t","t","p","s",":","/","/","g","o","o","g","l","e",".","c","o","m">>,
       <<"h","t","t","p",":","/","/","s","u","s","p","i","c","i","o","u","s","-","s","i","t","e",".","c","o","m">>,
       <<"h","t","t","p","s",":","/","/","g","i","t","h","u","b",".","c","o","m">> >>

\* 'https://example.com/qr-decoded-url'
simulatedUrlSimple ==
    <<"h","t","t","p","s",":","/","/","e","x","a","m","p","l","e",".","c","o","m","/","q","r","-","d","e","c","o","d","e","d","-","u","r","l">>

\* event.target.files: no file, an image, a text file
UploadedFiles ==
    { <<>>, << [type |-> <<"i","m","a","g","e","/","p","n","g">>] >>,
      << [type |-> <<"t","e","x","t","/","p","l","a","i","n">>] >> }

\* the draws of Math.random the component is run with: hasSecurityHeaders,
\* responseTime, redirects
SampleDraws ==
    { [hasSecurityHeaders |-> TRUE,  responseTime |-> 200,  redirects |-> 0],
      [hasSecurityHeaders |-> FALSE, responseTime |-> 1199, redirects |-> 2] }

\* the number of handleScan invocations a run is followed for
MaxScans == 2

\* the number of handleScan invocations a run that starts from a filled
\* history is followed for
MaxHistScans == 1

\* prev.slice(0, 19): the richer component keeps the last 20 scans
SliceEndRich == 19

\* prev.slice(0, 9): the simpler component keeps the last 10 scans
SliceEndSimple == 9

\* Array.prototype.slice(from, to), 0-based, to exclusive
slice(arr, from, to) ==
    SubSeq(arr, from + 1, IF to < Len(arr) THEN to ELSE Len(arr))

\* setScanHistory putting the new result after the kept entries
setScanHistory_appendsLast(prev, result) ==
    slice(prev, 0, IF variant = "rich" THEN SliceEndRich ELSE SliceEndSimple) \o <<result>>

\* setScanHistory keeping one entry too many
setScanHistory_offByOne(prev, result) ==
    <<result>> \o slice(prev, 0, IF variant = "rich" THEN SliceEndRich + 1 ELSE SliceEndSimple + 1)

\* setScanHistory(prev => [result, ...prev.slice(0, n)])
setScanHistory(prev, result) ==
    <<result>> \o slice(prev, 0, IF variant = "rich" THEN SliceEndRich ELSE SliceEndSimple)

\* onChange of the URL field
TypeUrl ==
    /\ \E v \in TypedUrls : v # url /\ url' = v
    /\ UNCHANGED <<variant, isScanning, scanResult, scanHistory, historyFilter,
                   pending, now, scans, scorerVars>>

\* handleScan testing !url instead of !url.trim()
handleScan_noTrim(limit) ==
    IF url = <<>>
    THEN UNCHANGED vars
    ELSE /\ scans < limit
         /\ isScanning' = TRUE
         /\ pending' = Append(pending, url)
         /\ scans' = scans + 1
         /\ UNCHANGED <<variant, url, scanResult, scanHistory, historyFilter,
                        now, scorerVars>>

\* handleScan up to its await; a run is followed for limit invocations
handleScan(limit) ==
    IF trim(url) = <<>>
    THEN \* the richer component shows a toast; both return
         UNCHANGED vars
    ELSE /\ scans < limit
         /\ isScanning' = TRUE
         /\ pending' = Append(pending, url)
         /\ scans' = scans + 1
         /\ UNCHANGED <<variant, url, scanResult, scanHistory, historyFilter,
                        now, scorerVars>>

\* onClick of the Scan button, which is disabled={!url.trim() || isScanning}
ClickScan(limit) ==
    /\ trim(url) # <<>>
    /\ ~isScanning
    /\ handleScan(limit)

\* onKeyPress of the URL field: e.key === 'Enter' && handleScan()
PressEnter(limit) == handleScan(limit)

\* the resumed handleScan without its catch: a throw of the scorer leaves the
\* function before setIsScanning(false)
handleScanResumeRich_noCatch(draws) ==
    /\ variant = "rich"
    /\ pending # <<>>
    /\ \E d \in draws :
          LET out == performComprehensiveScan(trim(Head(pending)), d.hasSecurityHeaders,
                                              d.responseTime, d.redirects, now)
          IN  IF out.threw
              THEN UNCHANGED <<scanResult, scanHistory, isScanning>>
              ELSE /\ scanResult' = <<out.value>>
                   /\ scanHistory' = setScanHistory(scanHistory, out.value)
                   /\ isScanning' = FALSE
    /\ pending' = Tail(pending)
    /\ now' = now + 1
    /\ UNCHANGED <<variant, url, historyFilter, scans, scorerVars>>

\* handleScan of the richer component from its await on: the timer of the
\* oldest suspended invocation fires
handleScanResumeRich(draws) ==
    /\ variant = "rich"
    /\ pending # <<>>
    /\ \E d \in draws :
          LET out == performComprehensiveScan(trim(Head(pending)), d.hasSecurityHeaders,
                                              d.responseTime, d.redirects, now)
          IN  IF out.threw
              THEN \* catch: the "Scan Failed" toast
                   UNCHANGED <<scanResult, scanHistory>>
              ELSE /\ scanResult' = <<out.value>>
                   /\ scanHistory' = setScanHistory(scanHistory, out.value)
    /\ isScanning' = FALSE
    /\ pending' = Tail(pending)
    /\ now' = now + 1
    /\ UNCHANGED <<variant, url, historyFilter, scans, scorerVars>>

\* handleScan of the simpler component from its await on
handleScanResumeSimple ==
    /\ variant = "simple"
    /\ pending # <<>>
    /\ LET result == validateURL(trim(Head(pending)), now)
       IN  /\ scanResult' = <<result>>
           /\ scanHistory' = setScanHistory(scanHistory, result)
    /\ isScanning' = FALSE
    /\ pending' = Tail(pending)
    /\ now' = now + 1
    /\ UNCHANGED <<variant, url, historyFilter, scans, scorerVars>>

\* onChange of the file input
handleFileUpload(files) ==
    IF files # <<>> /\ startsWith(files[1].type, <<"i","m","a","g","e","/">>)
    THEN /\ IF variant = "rich"
            THEN \E i \in 1..Len(simulatedUrls) : url' = simulatedUrls[i]
            ELSE url' = simulatedUrlSimple
         /\ UNCHANGED <<variant, isScanning, scanResult, scanHistory, historyFilter,
                        pending, now, scans, scorerVars>>
    ELSE UNCHANGED vars

UploadFile == \E files \in UploadedFiles : handleFileUpload(files)

\* the filter compared without lowering its own case
filteredHistory_caseSensitive ==
    SelectSeq(scanHistory,
              LAMBDA scan : includes(toLowerCase(scan.url), historyFilter))

\* scanHistory.filter(scan => scan.url.toLowerCase().includes(historyFilter.toLowerCase()))
filteredHistory ==
    SelectSeq(scanHistory,
              LAMBDA scan : includes(toLowerCase(scan.url), toLowerCase(historyFilter)))

\* onChange of the filter field, rendered by the richer component once the
\* history is not empty
TypeFilter ==
    /\ variant = "rich"
    /\ Len(scanHistory) > 0
    /\ \E f \in TypedFilters : f # historyFilter /\ historyFilter' = f
    /\ UNCHANGED <<variant, url, isScanning, scanResult, scanHistory, pending,
                   now, scans, scorerVars>>

\* rescanFromHistory going on to start the scan itself
rescanFromHistory_startsScan(historyUrl) ==
    /\ url' = historyUrl
    /\ scanResult' = <<>>
    /\ isScanning' = TRUE
    /\ pending' = Append(pending, historyUrl)
    /\ UNCHANGED <<variant, scanHistory, historyFilter, now, scans, scorerVars>>

\* const rescanFromHistory = (historyUrl) => { setUrl(historyUrl); setScanResult(null); }
rescanFromHistory(historyUrl) ==
    /\ url' = historyUrl
    /\ scanResult' = <<>>
    /\ UNCHANGED <<variant, isScanning, scanHistory, historyFilter, pending,
                   now, scans, scorerVars>>

\* onClick of the Rescan button of a displayed history entry
ClickRescan ==
    /\ variant = "rich"
    /\ \E i \in 1..Len(filteredHistory) : rescanFromHistory(filteredHistory[i].url)

Init ==
    /\ variant \in {"rich", "simple"}
    /\ InitComponent
    /\ inputs = << <<>>, <<>> >>
    /\ outs = << <<>>, <<>> >>

Next ==
    \/ TypeUrl
    \/ ClickScan(MaxScans)
    \/ PressEnter(MaxScans)
    \/ handleScanResumeRich(SampleDraws)
    \/ handleScanResumeSimple
    \/ UploadFile
    \/ TypeFilter
    \/ ClickRescan

Spec == Init /\ [][Next]_vars

(***************************************************************************)
(* The component with a history that earlier scans have filled             *)
(***************************************************************************)
\* the draws of the t-th earlier scan
FillDraw(t) ==
    IF t % 2 = 0
    THEN [hasSecurityHeaders |-> TRUE,  responseTime |-> 200,  redirects |-> 0]
    ELSE [hasSecurityHeaders |-> FALSE, responseTime |-> 1199, redirects |-> 2]

\* the URL of the t-th earlier scan: the uploads' URLs in turn
FillUrl(t) ==
    IF variant = "rich" THEN simulatedUrls[(t % Len(simulatedUrls)) + 1]
    ELSE simulatedUrlSimple

\* the result of the t-th earlier scan, completed at time t
FillResult(t) ==
    IF variant = "rich"
    THEN performComprehensiveScan(FillUrl(t), FillDraw(t).hasSecurityHeaders,
                                  FillDraw(t).responseTime, FillDraw(t).redirects, t).value
    ELSE validateURL(FillUrl(t), t)

RECURSIVE FilledHistory(_)
\* the history after n uploads, each followed by a scan
FilledHistory(n) ==
    IF n = 0 THEN <<>>
    ELSE LET prev == FilledHistory(n - 1)
         IN  setScanHistory(prev, FillResult(n - 1))

\* the state after n uploads, each followed by a scan, n one below the cap of
\* the history or at it
InitHist ==
    /\ variant \in {"rich", "simple"}
    /\ \E n \in IF variant = "rich" THEN {SliceEndRich, SliceEndRich + 1}
                ELSE {SliceEndSimple, SliceEndSimple + 1} :
          /\ url = FillUrl(n - 1)
          /\ scanHistory = FilledHistory(n)
          /\ scanResult = <<FillResult(n - 1)>>
          /\ now = n
    /\ isScanning = FALSE
    /\ historyFilter = <<>>
    /\ pending = <<>>
    /\ scans = 0
    /\ inputs = << <<>>, <<>> >>
    /\ outs = << <<>>, <<>> >>

NextHist ==
    \/ TypeUrl
    \/ ClickScan(MaxHistScans)
    \/ PressEnter(MaxHistScans)
    \/ handleScanResumeRich(SampleDraws)
    \/ handleScanResumeSimple
    \/ UploadFile
    \/ TypeFilter
    \/ ClickRescan

SpecHist == InitHist /\ [][NextHist]_vars

(***************************************************************************)
(* Properties of the scorer                                                *)
(***************************************************************************)
Called(k) == outs[k] # <<>>

Hdr(k) == outs[k][1].hasSecurityHeaders

Ret(k) == outs[k][1].ret

Parseable(u) == NewURL(u).ok

IsHttps(u) == NewURL(u).protocol = <<"h","t","t","p","s",":">>

HostDenylisted(u) ==
    \E i \in 1..Len(suspiciousDomains) : includes(NewURL(u).hostname, suspiciousDomains[i])

HasPhishingKeyword(u) ==
    \E i \in 1..Len(phishingPatterns) : includes(toLowerCase(u), phishingPatterns[i])

HasDangerousExtension(u) ==
    \E i \in 1..Len(maliciousExtensions) : includes(toLowerCase(u), maliciousExtensions[i])

\* an "otherwise clean" URL
Clean(u) ==
    /\ Parseable(u)
    /\ ~HostDenylisted(u)
    /\ Len(u) <= 200
    /\ ~HasPhishingKeyword(u)
    /\ ~HasDangerousExtension(u)

HasCheck(r, n) == \E i \in 1..Len(r.checks) : r.checks[i].name = n

CheckStatus(r, n) ==
    r.checks[CHOOSE i \in 1..Len(r.checks) : r.checks[i].name = n].status

\* C1: for every input that does not parse as an absolute URL the scorer
\* returns (it does not throw) a result with score 0, status unsafe and the
\* failing "URL Format" check as its only check.
C1_ScanIsTotal ==
    \A k \in 1..2 :
        (Called(k) /\ ~Parseable(inputs[k])) =>
            /\ ~Ret(k).threw
            /\ Ret(k).value.score = 0
            /\ Ret(k).value.status = "unsafe"
            /\ Len(Ret(k).value.checks) = 1
            /\ Ret(k).value.checks[1].name = "URL Format"
            /\ Ret(k).value.checks[1].status = "fail"

\* C4: a clean https URL is safe under either header outcome and scores 100
\* when the header rule passes; a clean URL of another scheme scores 70 and
\* is suspicious when the header rule passes.
C4_CleanUrlScore ==
    \A k \in 1..2 :
        (Called(k) /\ Clean(inputs[k])) =>
            /\ ~Ret(k).threw
            /\ IsHttps(inputs[k]) =>
                  /\ Ret(k).value.status = "safe"
                  /\ Hdr(k) => Ret(k).value.score = 100
            /\ (~IsHttps(inputs[k]) /\ Hdr(k)) =>
                  /\ Ret(k).value.score = 70
                  /\ Ret(k).value.status = "suspicious"

C4_Witness ==
    /\ Called(1) /\ Called(2)
    /\ Clean(inputs[1]) /\ inputs[2] = inputs[1]
    /\ ~IsHttps(inputs[1])
    /\ Hdr(1) /\ ~Hdr(2)
    /\ Ret(1).value.score = 70

\* b is a with one of the dangerous extensions added somewhere
ExtensionAdded(a, b) ==
    \E k \in 1..Len(maliciousExtensions), i \in 0..Len(a) :
        b = Insert(a, i, maliciousExtensions[k])

\* C5 as stated: adding a dangerous extension to an otherwise clean URL
\* lowers the score by exactly 35, the header outcome being the same.
C5_ExtensionCosts35 ==
    ( /\ Called(1) /\ Called(2)
      /\ Clean(inputs[1])
      /\ ExtensionAdded(inputs[1], inputs[2])
      /\ Hdr(1) = Hdr(2) ) =>
        /\ ~Ret(2).threw
        /\ Ret(2).value.score = Ret(1).value.score - 35

\* C5 amended: adding a dangerous extension to an otherwise clean URL lowers
\* the score by exactly 35, the header outcome being the same, provided the
\* URL with the extension still parses, is https exactly when the original
\* is, has a host that matches no denylist entry and is no longer than 200.
C5_ExtensionCosts35_Amended ==
    ( /\ Called(1) /\ Called(2)
      /\ Clean(inputs[1])
      /\ ExtensionAdded(inputs[1], inputs[2])
      /\ Hdr(1) = Hdr(2)
      /\ Parseable(inputs[2])
      /\ IsHttps(inputs[2]) = IsHttps(inputs[1])
      /\ ~HostDenylisted(inputs[2])
      /\ Len(inputs[2]) <= 200 ) =>
        /\ ~Ret(2).threw
        /\ Ret(2).value.score = Ret(1).value.score - 35

C5_Witness ==
    /\ Called(1) /\ Called(2)
    /\ inputs[1] = urlSite /\ inputs[2] = urlMalware
    /\ Hdr(1) /\ Hdr(2)
    /\ Ret(1).value.score = 100
    /\ Ret(2).value.score = 65
    /\ Ret(2).value.status = "suspicious"

\* the penalty a check of a result stands for
PenaltyOf(c) ==
    IF c.status = "pass" THEN 0
    ELSE CASE c.name = "HTTPS Protocol"      -> 30
           [] c.name = "Domain Reputation"   -> 20
           [] c.name = "URL Length"          -> 10
           [] c.name = "Phishing Indicators" -> 25
           [] c.name = "File Type Safety"    -> 35
           [] c.name = "Security Headers"    -> 15
           [] OTHER                          -> 0

RECURSIVE SumPenalties(_, _)
\* the penalties of the checks of cs other than the check named n
SumPenalties(cs, n) ==
    IF Len(cs) = 0 THEN 0
    ELSE (IF Head(cs).name = n THEN 0 ELSE PenaltyOf(Head(cs))) + SumPenalties(Tail(cs), n)

\* the "Domain Reputation" check of every parseable call is a warning that
\* costs 20 iff the host contains one of list, and passes at no cost otherwise
DomainRuleFollows(list) ==
    \A k \in 1..2 :
        (Called(k) /\ Parseable(inputs[k])) =>
            /\ ~Ret(k).threw
            /\ HasCheck(Ret(k).value, "Domain Reputation")
            /\ LET r      == Ret(k).value
                   others == SumPenalties(r.checks, "Domain Reputation")
                   match  == \E i \in 1..Len(list) : includes(NewURL(inputs[k]).hostname, list[i])
               IN  IF match
                   THEN /\ CheckStatus(r, "Domain Reputation") = "warning"
                        /\ r.score = Max(0, 100 - others - 20)
                   ELSE /\ CheckStatus(r, "Domain Reputation") = "pass"
                        /\ r.score = Max(0, 100 - others)

PrivateRangePrefixes ==
    << <<"1","9","2",".","1","6","8",".">>, <<"1","0",".">>, <<"1","7","2",".">> >>

\* C6 as stated: the host is matched against bit.ly, tinyurl.com, t.co, goo.gl,
\* localhost, 127.0.0.1 and the private-range prefixes 192.168., 10., 172.
C6_DomainReputation == DomainRuleFollows(suspiciousDomains \o PrivateRangePrefixes)

\* C6 amended: the "Domain Reputation" check is a warning and 20 is subtracted
\* iff the host contains any of bit.ly, tinyurl.com, t.co, goo.gl, localhost
\* or 127.0.0.1; otherwise the check passes and nothing is subtracted.
C6_DomainReputation_Amended == DomainRuleFollows(suspiciousDomains)

C6_Witness ==
    /\ Called(1) /\ Called(2)
    /\ inputs[1] = urlMicrosoft
    /\ CheckStatus(Ret(1).value, "Domain Reputation") = "warning"
    /\ Hdr(1) /\ Ret(1).value.score = 80

\* the result of scanning http://bit.ly/abc with the header rule passing
BitlyResult(status) ==
    \A k \in 1..2 :
        (Called(k) /\ inputs[k] = urlBitly /\ Hdr(k)) =>
            /\ ~Ret(k).threw
            /\ CheckStatus(Ret(k).value, "HTTPS Protocol") = "fail"
            /\ CheckStatus(Ret(k).value, "Domain Reputation") = "warning"
            /\ Ret(k).value.score = 50
            /\ Ret(k).value.status = status

\* C7 as stated: score 50 and status unsafe.
C7_BitlyUnsafe == BitlyResult("unsafe")

\* C7 amended: scan("http://bit.ly/abc") with the header rule passing fails
\* the HTTPS check (-30) and warns on domain reputation (-20), giving score
\* 50, and its status is suspicious.
C7_BitlySuspicious == BitlyResult("suspicious")

C7_Witness ==
    /\ Called(1)
    /\ inputs[1] = urlBitly
    /\ Hdr(1)
    /\ Ret(1).value.score = 50

\* the sum of the penalties of the rules that trigger on u
PenaltySum(u, h) ==
      (IF ~IsHttps(u) THEN 30 ELSE 0)
    + (IF HostDenylisted(u) THEN 20 ELSE 0)
    + (IF Len(u) > 200 THEN 10 ELSE 0)
    + (IF HasPhishingKeyword(u) THEN 25 ELSE 0)
    + (IF HasDangerousExtension(u) THEN 35 ELSE 0)
    + (IF ~h THEN 15 ELSE 0)

\* the source order rotated, reversed, and with two neighbours swapped
Orders ==
    { [i \in 1..7 |-> ((i + d - 1) % 7) + 1] : d \in 0..6 }
    \cup { [i \in 1..7 |-> 8 - i] }
    \cup { [i \in 1..7 |-> IF i = j THEN j + 1 ELSE IF i = j + 1 THEN j ELSE i] : j \in 1..6 }

ScanContext(u, h) ==
    [inputUrl |-> u, domain |-> NewURL(u).hostname,
     protocol |-> NewURL(u).protocol, hasSecurityHeaders |-> h]

\* C8: for every parseable URL the final score is max(0, 100 - the sum of the
\* penalties of the rules that trigger); no rule raises the score, and the
\* rules applied in another order give the same score.
C8_ScoreIsPenaltySum ==
    \A k \in 1..2 :
        (Called(k) /\ Parseable(inputs[k])) =>
            /\ ~Ret(k).threw
            /\ Ret(k).value.score = Max(0, 100 - PenaltySum(inputs[k], Hdr(k)))
            /\ LET ctx   == ScanContext(inputs[k], Hdr(k))
                   start == [checks |-> <<>>, score |-> 100]
               IN  /\ \A n \in 1..7 : Rule(n, start, ctx).score <= start.score
                   /\ k = 1 => \A o \in Orders :
                         Max(0, ApplyRules(o, start, ctx).score) = Ret(k).value.score

C8_Witness ==
    /\ Called(1)
    /\ inputs[1] = urlWorst
    /\ ~Hdr(1)
    /\ PenaltySum(inputs[1], Hdr(1)) = 135
    /\ Ret(1).value.score = 0

\* C9: two scans of the same input that draw the same header outcome produce
\* the same score, status and checks (or both fail), whatever responseTime
\* and redirects they draw.
C9_DeterministicModuloHeaders ==
    ( /\ Called(1) /\ Called(2)
      /\ inputs[1] = inputs[2]
      /\ Hdr(1) = Hdr(2) ) =>
        /\ Ret(1).threw = Ret(2).threw
        /\ ~Ret(1).threw =>
              /\ Ret(1).value.score = Ret(2).value.score
              /\ Ret(1).value.status = Ret(2).value.status
              /\ Ret(1).value.checks = Ret(2).value.checks

C9_Witness ==
    /\ Called(1) /\ Called(2)
    /\ inputs[1] = inputs[2]
    /\ Hdr(1) = Hdr(2)
    /\ ~Ret(1).threw /\ ~Ret(2).threw
    /\ Ret(1).value.metadata.responseTime # Ret(2).value.metadata.responseTime
    /\ Ret(1).value.metadata.redirects # Ret(2).value.metadata.redirects
    /\ Ret(1).value.score < 100

(***************************************************************************)
(* Properties of the component                                             *)
(***************************************************************************)
\* every result the richer component holds: the current one and the history
HeldResults == Range(scanResult) \cup Range(scanHistory)

\* C2: every result produced has an integer score in 0..100 and a status
\* that its score determines: safe iff score >= 80, suspicious iff
\* 50 <= score < 80, unsafe iff score < 50.
C2_ScoreAndStatus ==
    variant = "rich" =>
        \A r \in HeldResults :
            /\ r.score \in 0..100
            /\ r.status = "safe" <=> r.score >= 80
            /\ r.status = "suspicious" <=> (50 <= r.score /\ r.score < 80)
            /\ r.status = "unsafe" <=> r.score < 50

C2_Witness ==
    /\ variant = "rich"
    /\ Len(scanHistory) = 2
    /\ scanHistory[1].score = 0
    /\ PenaltySum(scanHistory[1].url, TRUE) > 100
    /\ scanHistory[2].status = "safe"
    /\ scanResult = <<scanHistory[1]>>

\* the cap of the history: 20 in the richer component, 10 in the simpler one
HistoryCap == IF variant = "rich" THEN 20 ELSE 10

\* the first n entries of h, or all of h when it has fewer
FirstEntries(h, n) == SubSeq(h, 1, IF n < Len(h) THEN n ELSE Len(h))

\* a step in which a suspended handleScan resumes and its scan succeeds
ScanSucceeds ==
    /\ pending # <<>>
    /\ pending' = Tail(pending)
    /\ now' = now + 1
    /\ variant = "rich" => Parseable(trim(Head(pending)))

\* C3: after every successful scan the history is the new result followed
\* by the first K-1 entries of the previous history in their order; nothing
\* else changes the history, which never has more than K entries.
C3_AppendAndTruncate ==
    /\ [](Len(scanHistory) <= HistoryCap)
    /\ [][ IF ScanSucceeds
           THEN /\ scanResult' # <<>>
                /\ scanResult'[1].url = trim(Head(pending))
                /\ scanResult'[1].timestamp = now
                /\ scanHistory' = <<scanResult'[1]>> \o FirstEntries(scanHistory, HistoryCap - 1)
           ELSE scanHistory' = scanHistory ]_vars

\* K + 1 scans have succeeded: the oldest result is gone, the newest is first
C3_Witness ==
    /\ scans = 1
    /\ now = HistoryCap + 1
    /\ Len(scanHistory) = HistoryCap
    /\ scanHistory[1].timestamp = HistoryCap
    /\ scanHistory[HistoryCap].timestamp = 1
    /\ \A i \in 1..HistoryCap : scanHistory[i].timestamp = HistoryCap + 1 - i

\* a step in which an image file is uploaded
ImageUploaded ==
    \E files \in UploadedFiles :
        /\ files # <<>>
        /\ startsWith(files[1].type, <<"i","m","a","g","e","/">>)
        /\ handleFileUpload(files)

\* C10: the upload of an image puts the extracted URL in the input and
\* starts a scan of it without any further user action.
C10_UploadStartsScan ==
    [][ ImageUploaded =>
            /\ isScanning'
            /\ pending' = Append(pending, url') ]_vars

\* C11: handleScan invoked while the input is empty or only white space
\* starts no scan, so the scorer is never run on such an input, and leaves
\* isScanning, the current result and the history as they are.
C11_EmptyInputRejected ==
    /\ [](\A i \in 1..Len(pending) : trim(pending[i]) # <<>>)
    /\ [][ trim(url) = <<>> =>
             /\ scans' = scans
             /\ Len(pending') <= Len(pending)
             /\ handleScan(MaxScans) =>
                   UNCHANGED <<isScanning, scanResult, scanHistory, pending, now>> ]_vars

\* the input is white space only, after a scan that left a result
C11_Witness ==
    /\ url = urlBlank
    /\ trim(url) = <<>>
    /\ scanResult # <<>>
    /\ Len(scanHistory) = 1
    /\ pending = <<>>
    /\ ~isScanning

\* two characters that are equal once the case of letters is ignored
SameIgnoringCase(a, b) ==
    \/ a = b
    \/ a \in DOMAIN LowerOf /\ LowerOf[a] = b
    \/ b \in DOMAIN LowerOf /\ LowerOf[b] = a

\* p occurs in s at some offset, letter case ignored
ContainsIgnoringCase(s, p) ==
    \E off \in 0..(Len(s) - Len(p)) :
        \A j \in 1..Len(p) : SameIgnoringCase(s[off + j], p[j])

\* positions of the history entries whose url contains the filter
Matches ==
    {i \in 1..Len(scanHistory) :
        ContainsIgnoringCase(scanHistory[i].url, historyFilter)}

\* C12: the displayed list is the subsequence, in history order, of the
\* entries whose url contains the filter text regardless of letter case (all
\* of them for an empty filter), and a change of the filter never changes
\* the history.
C12_FilteredHistory ==
    /\ [](LET shown == filteredHistory
               m     == Matches
           IN  /\ Len(shown) = Cardinality(m)
               /\ \A k \in 1..Len(shown) :
                     \E i \in m :
                         /\ Cardinality({j \in m : j <= i}) = k
                         /\ shown[k] = scanHistory[i]
               /\ historyFilter = <<>> => shown = scanHistory)
    /\ [][historyFilter' # historyFilter => scanHistory' = scanHistory]_vars

\* an upper-case filter keeps the second of two entries only
C12_Witness ==
    /\ historyFilter = <<"B", "I", "T">>
    /\ Len(scanHistory) = 2
    /\ Len(filteredHistory) = 1
    /\ filteredHistory[1] = scanHistory[2]

\* the names of the checks of a parseable URL, in evaluation order
SevenChecks ==
    <<"HTTPS Protocol", "Domain Reputation", "URL Length", "Phishing Indicators",
      "File Type Safety", "SSL Certificate", "Security Headers">>

\* C13: for every parseable URL the result lists exactly the seven checks in
\* evaluation order; "SSL Certificate" passes exactly when "HTTPS Protocol"
\* passes, which is exactly when the scheme is https; and the SSL check
\* subtracts nothing: the score is 100 less the penalties of the other six.
C13_SevenChecks ==
    \A k \in 1..2 :
        (Called(k) /\ Parseable(inputs[k])) =>
            /\ ~Ret(k).threw
            /\ LET r == Ret(k).value
               IN  /\ [i \in 1..Len(r.checks) |-> r.checks[i].name] = SevenChecks
                   /\ CheckStatus(r, "SSL Certificate") \in {"pass", "fail"}
                   /\ CheckStatus(r, "SSL Certificate") = "pass"
                         <=> CheckStatus(r, "HTTPS Protocol") = "pass"
                   /\ CheckStatus(r, "HTTPS Protocol") = "pass" <=> IsHttps(inputs[k])
                   /\ r.score = Max(0, 100 - SumPenalties(r.checks, "SSL Certificate"))

\* an http URL with nothing else wrong: both checks fail, 30 is lost once
C13_Witness ==
    /\ Called(1)
    /\ Parseable(inputs[1])
    /\ ~IsHttps(inputs[1])
    /\ Hdr(1)
    /\ CheckStatus(Ret(1).value, "SSL Certificate") = "fail"
    /\ CheckStatus(Ret(1).value, "HTTPS Protocol") = "fail"
    /\ Len(Ret(1).value.checks) = 7
    /\ Ret(1).value.score = 70

\* C14: isScanning is true whenever at least one invocation of handleScan is
\* between its start and its completion, so no scan completes and clears
\* isScanning while another one is still pending.
C14_ScanningWhilePending == pending # <<>> => isScanning

\* the scorer throws on the url captured by the oldest suspended invocation,
\* whatever it draws
OldestScanThrows ==
    /\ variant = "rich"
    /\ pending # <<>>
    /\ \A d \in SampleDraws :
          performComprehensiveScan(trim(Head(pending)), d.hasSecurityHeaders,
                                   d.responseTime, d.redirects, now).threw

\* one suspended invocation of handleScan runs to its end
ScanCompletes == pending # <<>> /\ pending' = Tail(pending) /\ now' = now + 1

\* C15: when the scorer throws inside handleScan, the scan ends with the
\* current result and the history unchanged and isScanning reset to false.
C15_ThrowIsCaught ==
    [][ (ScanCompletes /\ OldestScanThrows) =>
            /\ scanResult' = scanResult
            /\ scanHistory' = scanHistory
            /\ isScanning' = FALSE ]_vars

\* a scan left a result, a second scan threw: the result of the first stays
C15_Witness ==
    /\ variant = "rich"
    /\ now = 2
    /\ Len(scanHistory) = 1
    /\ scanHistory[1].timestamp = 0
    /\ scanResult = <<scanHistory[1]>>
    /\ pending = <<>>
    /\ ~isScanning

\* C16: whatever scans (overlapping ones included), uploads, filter edits and
\* rescans came before, a current result that is not null is the entry at
\* index 0 of the history.
C16_ResultHeadsHistory ==
    scanResult # <<>> => (scanHistory # <<>> /\ scanResult[1] = scanHistory[1])

\* the first of two overlapping scans has completed, the second is pending
C16_Witness ==
    /\ scanResult # <<>>
    /\ scanResult[1] = scanHistory[1]
    /\ pending # <<>>
    /\ ~isScanning

\* what a rescan leaves alone: the history, the filter, isScanning, and the
\* scans started or completed so far
RescanFrame == UNCHANGED <<scanHistory, historyFilter, isScanning, pending, scans, now>>

\* C17: rescanFromHistory on a displayed entry sets the input to the entry's
\* url and clears the current result; it leaves the history, the filter and
\* isScanning unchanged and starts no scan itself.
C17_RescanOnlyLoadsUrl ==
    /\ [][ ClickRescan =>
             /\ \E i \in 1..Len(filteredHistory) : url' = filteredHistory[i].url
             /\ scanResult' = <<>>
             /\ RescanFrame ]_vars
    /\ [][ (scanResult # <<>> /\ scanResult' = <<>>) =>
             /\ \E i \in 1..Len(scanHistory) : url' = scanHistory[i].url
             /\ RescanFrame ]_vars

\* after a scan and a rescan of its entry: the input holds the entry's url,
\* no result is shown and nothing is running
C17_Witness ==
    /\ variant = "rich"
    /\ scanResult = <<>>
    /\ Len(scanHistory) = 1
    /\ url = scanHistory[1].url
    /\ pending = <<>>
    /\ ~isScanning
    /\ scans = 1

====
